---- MODULE Spec2Model ----
(***************************************************************************)
(* Model of the LaTeX compilation service.                                *)
(*                                                                         *)
(* Two request handlers for POST /compile exist in the repository:        *)
(*   - server.js            : one compile, no retry          (impl "basic")*)
(*   - the LLM-fixing server: compile / fix / retry loop     (impl "llm")  *)
(* A deployment runs one of them; Init chooses which.                     *)
(*                                                                         *)
(* Every `await` of a handler is one step of the model: between two       *)
(* awaits JavaScript runs the handler without interruption.  The file     *)
(* system, the compiler process and the completion service are the        *)
(* environment: each step draws their outcome with \E.                    *)
(***************************************************************************)
EXTENDS Integers, Sequences, FiniteSets, TLC

VARIABLES
  impl,     \* which server file is deployed: "basic" or "llm"
  active,   \* the requests that are served in this behaviour
  job,      \* job[j]: the local variables of handler invocation j
  fs,       \* fs[id]: the directory /tmp/latex-<id>
  used,     \* identifiers uuidv4() has already returned
  logFile,  \* the document.log handed to the log interpreter on its own
  execMessage, \* the message of the exec error the interpreter is called for
  extracted, \* what the log interpreter returned for logFile
  responseText, \* response.content[0].text of the completion service
  fixedLatex \* what fixLatexErrors did with responseText

(* the state of the functions that are checked on their own *)
pureVars == <<logFile, execMessage, extracted, responseText, fixedLatex>>

vars == <<impl, active, job, fs, used, pureVars>>

----------------------------------------------------------------------------
(* Bounds and program constants *)

NumIds == 2                       \* identifiers uuidv4() can draw from
Ids == 1..NumIds
Jobs == {1, 2}                    \* handler invocations
MAX_ATTEMPTS == 3

NoSource == -1

(* The values of the request body's fields. *)
LatexFields == {"absent", "empty", "text"}
AutoFixFields == {"absent", "true", "false"}

(* Outcomes of the compiler process. *)
ExitKinds == {"zero", "nonzero", "timeout"}

----------------------------------------------------------------------------
(* The working directory *)

NoDir == [exists |-> FALSE, tex |-> NoSource, pdf |-> 0, log |-> 0]

(* fs.mkdir(tempDir, {recursive: true}) *)
MkdirOk(d) == [d EXCEPT !.exists = TRUE]

(* fs.writeFile(texFile, latex) *)
WriteTex(d, src) == [d EXCEPT !.tex = src]

(* mutant: the removal reports success and leaves the directory *)
RmOk_Keeps(d) == d

(* fs.rm(tempDir, {recursive: true, force: true}) that succeeds *)
RmOk(d) == NoDir

(* pdflatex run number n in directory d: it may leave document.pdf and/or  *)
(* document.log behind; a file it does not write keeps its old content.    *)
RunCompiler(d, n, writesPdf, writesLog) ==
  [d EXCEPT !.pdf = IF writesPdf THEN n ELSE @,
            !.log = IF writesLog THEN n ELSE @]

----------------------------------------------------------------------------
(* Error messages: the text is abstracted to where it comes from. *)

(* extractLatexError(tempDir): the message is derived from document.log    *)
(* (written by compiler run d.log), or from the read error if there is none *)
extractLatexError(d) ==
  IF d.exists /\ d.log # 0
    THEN [kind |-> "log", run |-> d.log]
    ELSE [kind |-> "nolog", run |-> 0]

FsError == [kind |-> "fs", run |-> 0]
RmError == [kind |-> "rm", run |-> 0]
NoError == [kind |-> "null", run |-> 0]

----------------------------------------------------------------------------
(* The log interpreter on the text of document.log.                        *)
(* A log is the sequence of its lines (logContent.split('\n')), a line the *)
(* sequence of its pieces: the character "!", white space, the markers the *)
(* interpreter looks for, and other text.                                  *)

MaxLogLines == 3                  \* lines of a log handed to the interpreter
MaxErrorLines == 5                \* Math.min(i + 5, lines.length)
MaxExcerptLines == 10             \* meaningfulLines.slice(-10)

Bang == "!"
Space == " "
Undefined == "Undefined control sequence"
FileWord == "File"
FileQuoted == "File `tikz.sty'"
NotFound == "not found"
Missing == "Missing"
Emergency == "Emergency stop"
FileList == "*File List*"
Text == "x"

LogLines ==
  { <<>>, <<Space>>, <<Text>>,
    <<Bang, Space, Undefined>>,
    <<Bang, Space, Missing>>,
    <<Bang, Space, FileQuoted, NotFound>>,
    <<Bang, Space, FileWord, NotFound>>,
    <<Bang, Space, Emergency>>,
    <<Bang, Space, Text, Space>>,
    <<Bang, Undefined, Missing>>,
    <<Bang, FileQuoted, NotFound, Missing>>,
    <<Bang, Missing, Emergency>>,
    <<Text, Undefined>>,
    <<Space, Bang, Undefined>>,
    <<FileList>> }

(* the logs: split('\n') yields at least one line *)
Logs == UNION { [1..n -> LogLines] : n \in 1..MaxLogLines }

(* Logs longer than the excerpt: n distinct lines of plain text, of which  *)
(* up to two are replaced by a line the excerpt leaves out or by "".       *)
MaxLongLogLines == 12
PlainLines ==
  << <<"l01">>, <<"l02">>, <<"l03">>, <<"l04">>, <<"l05">>, <<"l06">>, <<"l07">>,
     <<"l08">>, <<"l09">>, <<"l10">>, <<"l11">>, <<"l12">>, <<"l13">>, <<"l14">> >>
NoiseLines == { <<>>, <<Space>>, <<FileList>>, <<Text, FileList, Space>> }

LongLogs ==
  { [k \in 1..n |-> IF k \in {a, b} THEN noise ELSE PlainLines[k]] :
      n \in (MaxExcerptLines + 1)..MaxLongLogLines,
      a \in 0..MaxLongLogLines, b \in 0..MaxLongLogLines, noise \in NoiseLines }

(* document.log as fs.readFile finds it *)
LogFiles ==
  {[readable |-> TRUE, lines |-> l] : l \in Logs \cup LongLogs}
    \cup {[readable |-> FALSE, lines |-> <<>>]}

(* compileError.message.includes('pdflatex: command not found') or not *)
ExecMessages == {"command not found", "other"}

NoLogFile == [readable |-> FALSE, lines |-> <<>>]

(* piece.includes(marker) *)
PieceIncludes(piece, marker) ==
  \/ piece = marker
  \/ marker = FileWord /\ piece \in {FileQuoted, FileList}

(* line.includes(marker) *)
Includes(line, marker) ==
  \E i \in 1..Len(line) : PieceIncludes(line[i], marker)

(* line.startsWith('!') *)
StartsWithBang(line) == Len(line) > 0 /\ line[1] = Bang

RECURSIVE TrimStart(_)
TrimStart(line) ==
  IF line # <<>> /\ Head(line) = Space THEN TrimStart(Tail(line)) ELSE line

RECURSIVE TrimEnd(_)
TrimEnd(line) ==
  IF line # <<>> /\ line[Len(line)] = Space
    THEN TrimEnd(SubSeq(line, 1, Len(line) - 1)) ELSE line

(* line.trim() *)
Trim(line) == TrimEnd(TrimStart(line))

(* line.match(/File `(.+?)'/): match[1], or 'unknown' without a match *)
MatchedFile(line) ==
  IF \E i \in 1..Len(line) : line[i] = FileQuoted THEN "tikz.sty" ELSE "unknown"

Message(kind, text) == [kind |-> kind, text |-> text]

(* mutant: 'Missing' is tested before 'Undefined control sequence' *)
Classify_MissingFirst(line) ==
  IF Includes(line, Missing)
    THEN Message("missing", <<>>)
  ELSE IF Includes(line, Undefined)
    THEN Message("undefined", <<>>)
  ELSE IF Includes(line, FileWord) /\ Includes(line, NotFound)
    THEN Message("file", <<MatchedFile(line)>>)
  ELSE IF Includes(line, Emergency)
    THEN Message("emergency", <<>>)
  ELSE Message("raw", Trim(Tail(line)))

(* the if / else if chain on the error line; the canned sentences are      *)
(* named by kind, the fallback is line.substring(1).trim()                 *)
Classify(line) ==
  IF Includes(line, Undefined)
    THEN Message("undefined", <<>>)
  ELSE IF Includes(line, FileWord) /\ Includes(line, NotFound)
    THEN Message("file", <<MatchedFile(line)>>)
  ELSE IF Includes(line, Missing)
    THEN Message("missing", <<>>)
  ELSE IF Includes(line, Emergency)
    THEN Message("emergency", <<>>)
  ELSE Message("raw", Trim(Tail(line)))

(* mutant: the loop has no break, the last error line decides *)
RECURSIVE ErrorLine_Last(_, _)
ErrorLine_Last(lines, i) ==
  IF i > Len(lines) THEN 0
  ELSE LET later == ErrorLine_Last(lines, i + 1)
       IN IF later # 0 THEN later
          ELSE IF StartsWithBang(lines[i]) THEN i ELSE 0

(* for (i = 0; ...) if (line.startsWith('!')) { ...; break }: the index of *)
(* the line the loop stops at, from i on; 0 when errorFound stays false    *)
RECURSIVE ErrorLine(_, _)
ErrorLine(lines, i) ==
  IF i > Len(lines) THEN 0
  ELSE IF StartsWithBang(lines[i]) THEN i
  ELSE ErrorLine(lines, i + 1)

Min2(a, b) == IF a < b THEN a ELSE b

(* lines.filter(l => l.trim() && !l.includes('*File List*')) *)
MeaningfulLines(lines) ==
  SelectSeq(lines, LAMBDA l : Trim(l) # <<>> /\ ~Includes(l, FileList))

(* mutant: slice(0, n), the first n lines *)
LastLines_First(lines, n) ==
  IF Len(lines) <= n THEN lines ELSE SubSeq(lines, 1, n)

(* seq.slice(-n) *)
LastLines(lines, n) ==
  IF Len(lines) <= n THEN lines ELSE SubSeq(lines, Len(lines) - n + 1, Len(lines))

NotExtracted ==
  [userFriendlyError |-> Message("none", <<>>), errorDetails |-> <<>>]

(* extractLatexError on the content of document.log *)
extractLatexErrorText(file) ==
  IF ~file.readable
    THEN [userFriendlyError |-> Message("readfail", <<>>),
          errorDetails |-> << <<"ENOENT">> >>]
  ELSE LET lines == file.lines
           i == ErrorLine(lines, 1)
       IN IF i = 0
            THEN [userFriendlyError |-> Message("generic", <<>>),
                  errorDetails |-> LastLines(MeaningfulLines(lines), MaxExcerptLines)]
            ELSE [userFriendlyError |-> Classify(lines[i]),
                  errorDetails |->
                    SubSeq(lines, i, Min2(i + MaxErrorLines, Len(lines) + 1) - 1)]

(* server.js: the same interpretation inline in catch (compileError), with *)
(* one more case when no line starts with '!', and the exec error's stderr *)
(* as details when document.log cannot be read                             *)
extractInline(file, message) ==
  IF ~file.readable
    THEN [userFriendlyError |-> Message("readfail", <<>>),
          errorDetails |-> << <<"stderr">> >>]
  ELSE IF ErrorLine(file.lines, 1) = 0 /\ message = "command not found"
    THEN [userFriendlyError |-> Message("notinstalled", <<>>),
          errorDetails |-> << <<"pdflatex is not installed on the server">> >>]
  ELSE extractLatexErrorText(file)

----------------------------------------------------------------------------
(* fixLatexErrors on the text of the completion service's response.        *)
(* A text is the sequence of its characters; the word "latex" and other    *)
(* text are one piece each.                                                *)

MaxTextLen == 6                   \* pieces of a response text

Backtick == "backtick"           \* the character U+0060
LatexWord == "latex"
Newline == "\n"

TextPieces == {Backtick, LatexWord, Newline, Space, Text}

(* the usual answers: the document alone, and the document in a fenced     *)
(* block, with and without the language tag                                *)
UsualTexts ==
  { <<Text, Newline, Text>>,
    <<Backtick, Backtick, Backtick, LatexWord, Newline, Text, Newline, Text, Newline,
      Backtick, Backtick, Backtick>>,
    <<Backtick, Backtick, Backtick, Newline, Text, Newline,
      Backtick, Backtick, Backtick, Newline>> }

ResponseTexts ==
  UNION { [1..n -> TextPieces] : n \in 0..MaxTextLen } \cup UsualTexts

(* white space as String.prototype.trim sees it *)
IsWhiteSpace(c) == c \in {Space, Newline}

RECURSIVE TrimTextStart(_)
TrimTextStart(t) ==
  IF t # <<>> /\ IsWhiteSpace(Head(t)) THEN TrimTextStart(Tail(t)) ELSE t

RECURSIVE TrimTextEnd(_)
TrimTextEnd(t) ==
  IF t # <<>> /\ IsWhiteSpace(t[Len(t)])
    THEN TrimTextEnd(SubSeq(t, 1, Len(t) - 1)) ELSE t

(* text.trim() *)
TrimText(t) == TrimTextEnd(TrimTextStart(t))

StartsWithFence(t) ==
  Len(t) >= 3 /\ t[1] = Backtick /\ t[2] = Backtick /\ t[3] = Backtick

(* the length of the match of /```latex\n?/ at the start of t, 0 without one *)
MatchLatexFence(t) ==
  IF StartsWithFence(t) /\ Len(t) >= 4 /\ t[4] = LatexWord
    THEN IF Len(t) >= 5 /\ t[5] = Newline THEN 5 ELSE 4
    ELSE 0

(* the length of the match of /```\n?/ at the start of t, 0 without one *)
MatchFence(t) ==
  IF StartsWithFence(t)
    THEN IF Len(t) >= 4 /\ t[4] = Newline THEN 4 ELSE 3
    ELSE 0

(* t.replace(/```latex\n?/g, ""): the matches are found from left to right *)
(* in t, each search starting behind the previous match                    *)
RECURSIVE RemoveLatexFences(_)
RemoveLatexFences(t) ==
  IF t = <<>> THEN <<>>
  ELSE IF MatchLatexFence(t) > 0
    THEN RemoveLatexFences(SubSeq(t, MatchLatexFence(t) + 1, Len(t)))
  ELSE <<Head(t)>> \o RemoveLatexFences(Tail(t))

(* t.replace(/```\n?/g, "") *)
RECURSIVE RemoveFences(_)
RemoveFences(t) ==
  IF t = <<>> THEN <<>>
  ELSE IF MatchFence(t) > 0
    THEN RemoveFences(SubSeq(t, MatchFence(t) + 1, Len(t)))
  ELSE <<Head(t)>> \o RemoveFences(Tail(t))

(* fixedLatex = response.content[0].text.trim();                           *)
(* fixedLatex = fixedLatex.replace(/```latex\n?/g, "").replace(/```\n?/g, "") *)
CleanUp(t) == RemoveFences(RemoveLatexFences(TrimText(t)))

NotFixed == [status |-> "pending", text |-> <<>>]

----------------------------------------------------------------------------
(* Responses *)

NoResponse ==
  [status |-> 0, kind |-> "none", jobId |-> 0, attempts |-> 0,
   llmFixed |-> "absent", body |-> 0, error |-> NoError,
   llmSuggestions |-> "absent"]

(* res.status(400).json({error: "No LaTeX content provided"}) *)
ValidationResponse ==
  [NoResponse EXCEPT !.status = 400, !.kind = "invalid"]

(* mutant: the header counts attempts from zero *)
SuccessResponse_ZeroBased(r) ==
  [NoResponse EXCEPT !.status = 200, !.kind = "pdf", !.jobId = r.jobId,
                     !.attempts = r.attempt - 1,
                     !.llmFixed = IF r.attempt > 1 THEN "true" ELSE "false",
                     !.body = r.pdfBuffer]

(* res.set({... "X-Job-Id", "X-Compilation-Attempts", "X-LLM-Fixed"}); res.send(pdfBuffer) *)
SuccessResponse(r) ==
  [NoResponse EXCEPT !.status = 200, !.kind = "pdf", !.jobId = r.jobId,
                     !.attempts = r.attempt,
                     !.llmFixed = IF r.attempt > 1 THEN "true" ELSE "false",
                     !.body = r.pdfBuffer]

(* errorResponse: {error, details, jobId, attempts: MAX_ATTEMPTS, llmSuggestions?} *)
errorResponse(r) ==
  [NoResponse EXCEPT !.status = 500, !.kind = "failed", !.jobId = r.jobId,
                     !.attempts = MAX_ATTEMPTS, !.error = r.lastError,
                     !.llmSuggestions = IF r.llmSuggestions # "null"
                                          THEN r.llmSuggestions ELSE "absent"]

(* outer catch: {error: "Internal server error", details, jobId} *)
InternalResponse(r) ==
  [NoResponse EXCEPT !.status = 500, !.kind = "internal", !.jobId = r.jobId,
                     !.error = r.lastError]

----------------------------------------------------------------------------
(* Handler state *)

IdleJob ==
  [pc |-> "idle", latex |-> "absent", autoFix |-> TRUE, jobId |-> 0,
   attempt |-> 0, currentLatex |-> NoSource, lastError |-> NoError,
   llmSuggestions |-> "null", pdfBuffer |-> 0,
   resp |-> NoResponse, sent |-> 0,
   \* what the job has done so far
   compilerRuns |-> 0, compileCalls |-> 0, fixCalls |-> 0, fixThrew |-> FALSE,
   lastRm |-> "none", mkdirCalled |-> FALSE, firstCompile |-> "pending",
   \* the latest compile: the compiler's exit, whether document.pdf existed
   \* after the run, the read of document.pdf, and how the compile ended
   exit |-> "none", pdfAfterRun |-> FALSE, pdfRead |-> "none",
   compileResult |-> "none",
   \* the latest external call that has completed: "compile" or "fix"
   lastCall |-> "none"]

Init ==
  /\ impl \in {"basic", "llm"}
  /\ active = {1}
  /\ job = [j \in Jobs |-> IdleJob]
  /\ fs = [i \in Ids |-> NoDir]
  /\ used = {}
  /\ logFile = NoLogFile
  /\ execMessage = "other"
  /\ extracted = NotExtracted
  /\ responseText = <<>>
  /\ fixedLatex = NotFixed

(* mutant: one directory for all jobs *)
TempDir_Shared(r) == 1

(* tempDir = `/tmp/latex-${jobId}`: the directory is keyed by the job identifier *)
TempDir(r) == r.jobId

Dir(j) == fs[TempDir(job[j])]

Send(r, response) == [r EXCEPT !.resp = response, !.sent = @ + 1, !.pc = "done"]

----------------------------------------------------------------------------
(* POST /compile of the LLM-fixing server *)

(* const { latex: originalLatex, autoFix = true } = req.body *)
AutoFixDefault(field) == field # "false"

(* mutant: only a missing field is rejected *)
Falsy_OnlyUndefined(latex) == latex = "absent"

(* if (!originalLatex): the field is undefined or the empty string *)
Falsy(latex) == latex # "text"

(* a compile begins: compileLatex is called (server.js: the compile steps) *)
CompileBegins(r) ==
  [r EXCEPT !.compileCalls = @ + 1, !.exit = "none", !.pdfAfterRun = FALSE,
            !.pdfRead = "none", !.compileResult = "pending"]

(* mutant: a run killed by the timeout counts as completed *)
ExecRejects_IgnoresTimeout(exit) == exit = "nonzero"

(* promisify(exec) rejects when the process exits non-zero or is killed    *)
(* by the timeout                                                          *)
ExecRejects(exit) == exit # "zero"

(* what the handler records about a finished compiler run *)
CompilerRan(r, d, exit) ==
  [r EXCEPT !.compilerRuns = @ + 1, !.exit = exit, !.lastCall = "compile",
            !.pdfAfterRun = d.exists /\ d.pdf # 0]

(* jobId = uuidv4(); validation; the call of fs.mkdir *)
LlmReceive(j) ==
  /\ impl = "llm" /\ j \in active /\ job[j].pc = "idle"
  /\ \E id \in Ids \ used, latex \in LatexFields, af \in AutoFixFields :
       /\ used' = used \cup {id}
       /\ LET r == [job[j] EXCEPT !.jobId = id, !.latex = latex,
                                  !.autoFix = AutoFixDefault(af)]
          IN job' = [job EXCEPT ![j] =
                 IF Falsy(latex)
                   THEN Send(r, ValidationResponse)
                   ELSE [r EXCEPT !.pc = "mkdir", !.mkdirCalled = TRUE]]
  /\ UNCHANGED <<pureVars, impl, active, fs>>

(* mutant: the ceiling is not tested, only autoFix *)
CompileCatch_NoCeiling(r, msg) ==
  [r EXCEPT !.lastError = msg,
            !.pc = IF ~r.autoFix THEN "finalRm" ELSE "fix"]

(* mutant: autoFix is not tested, only the ceiling *)
CompileCatch_IgnoresAutoFix(r, msg) ==
  [r EXCEPT !.lastError = msg,
            !.pc = IF r.attempt = MAX_ATTEMPTS THEN "finalRm" ELSE "fix"]

(* the catch (compileError) block of the retry loop, up to its next await *)
CompileCatch(r, msg) ==
  [r EXCEPT !.lastError = msg,
            !.pc = IF ~r.autoFix \/ r.attempt = MAX_ATTEMPTS
                     THEN "finalRm" ELSE "fix"]

(* compileLatex throws msg at attempt r.attempt *)
CompileThrows(r, msg) ==
  CompileCatch([r EXCEPT !.firstCompile = IF r.attempt = 1 THEN "failed" ELSE @,
                         !.compileResult = "threw"],
               msg)

(* await fs.mkdir(...) returns or throws; on success the loop starts with  *)
(* attempt = 1 and calls compileLatex, which calls fs.writeFile            *)
LlmMkdir(j) ==
  /\ impl = "llm" /\ j \in active /\ job[j].pc = "mkdir"
  /\ \E ok \in BOOLEAN :
       IF ok
         THEN /\ fs' = [fs EXCEPT ![TempDir(job[j])] = MkdirOk(@)]
              /\ job' = [job EXCEPT ![j] =
                     CompileBegins([@ EXCEPT !.currentLatex = 0, !.attempt = 1,
                                             !.pc = "writeFile"])]
         ELSE /\ fs' = fs
              /\ job' = [job EXCEPT ![j] =
                     [@ EXCEPT !.lastError = FsError, !.pc = "outerRm"]]
  /\ UNCHANGED <<pureVars, impl, active, used>>

(* compileLatex: await fs.writeFile(texFile, latex), outside its try *)
LlmWriteFile(j) ==
  /\ impl = "llm" /\ j \in active /\ job[j].pc = "writeFile"
  /\ \E ok \in BOOLEAN :
       IF ok /\ Dir(j).exists
         THEN /\ fs' = [fs EXCEPT ![TempDir(job[j])] = WriteTex(@, job[j].currentLatex)]
              /\ job' = [job EXCEPT ![j] = [@ EXCEPT !.pc = "exec"]]
         ELSE /\ fs' = fs
              /\ job' = [job EXCEPT ![j] = CompileThrows(@, FsError)]
  /\ UNCHANGED <<pureVars, impl, active, used>>

(* compileLatex: await execAsync("cd tempDir && pdflatex ...", timeout)    *)
(* execAsync rejects on a non-zero exit status and on the timeout; the     *)
(* catch block then calls extractLatexError (the exec error's message      *)
(* carries the command line and stderr, no "Details:")                    *)
LlmExec(j) ==
  /\ impl = "llm" /\ j \in active /\ job[j].pc = "exec"
  /\ \E exit \in ExitKinds, writesPdf \in BOOLEAN, writesLog \in BOOLEAN :
       /\ fs' = [fs EXCEPT ![TempDir(job[j])] =
                   IF @.exists
                     THEN RunCompiler(@, job[j].compilerRuns + 1, writesPdf, writesLog)
                     ELSE @]
       /\ job' = [job EXCEPT ![j] =
              [CompilerRan(@, fs'[TempDir(job[j])], exit)
                 EXCEPT !.pc = IF ExecRejects(exit) THEN "extract" ELSE "access"]]
  /\ UNCHANGED <<pureVars, impl, active, used>>

(* compileLatex: pdfExists = await fs.access(pdfFile)...; without the file *)
(* extractLatexError is called and its message thrown                      *)
LlmAccess(j) ==
  /\ impl = "llm" /\ j \in active /\ job[j].pc = "access"
  /\ LET pdfExists == Dir(j).exists /\ Dir(j).pdf # 0
     IN job' = [job EXCEPT ![j] =
            [@ EXCEPT !.pc = IF pdfExists THEN "readPdf" ELSE "extract"]]
  /\ UNCHANGED <<pureVars, impl, active, fs, used>>

(* compileLatex: return await fs.readFile(pdfFile); a read error is caught *)
(* by compileLatex's catch, which calls extractLatexError.  On success the *)
(* handler calls fs.rm                                                     *)
LlmReadPdf(j) ==
  /\ impl = "llm" /\ j \in active /\ job[j].pc = "readPdf"
  /\ \E ok \in BOOLEAN :
       job' = [job EXCEPT ![j] =
          IF ok /\ Dir(j).exists /\ Dir(j).pdf # 0
            THEN [@ EXCEPT !.pdfBuffer = Dir(j).pdf, !.pc = "successRm",
                           !.pdfRead = "ok", !.compileResult = "returned",
                           !.firstCompile = IF job[j].attempt = 1 THEN "ok" ELSE @]
            ELSE [@ EXCEPT !.pdfRead = "failed", !.pc = "extract"]]
  /\ UNCHANGED <<pureVars, impl, active, fs, used>>

(* compileLatex: await extractLatexError(tempDir), then throw new Error(   *)
(* userFriendlyError + Details); the handler's catch takes over            *)
LlmExtract(j) ==
  /\ impl = "llm" /\ j \in active /\ job[j].pc = "extract"
  /\ \E readable \in BOOLEAN :
       job' = [job EXCEPT ![j] =
          CompileThrows(@, IF readable THEN extractLatexError(Dir(j))
                                       ELSE extractLatexError(NoDir))]
  /\ UNCHANGED <<pureVars, impl, active, fs, used>>

(* mutant: res.send(pdfBuffer) comes before await fs.rm(tempDir, ...), so *)
(* a throwing rm lands in catch (compileError) after the response          *)
LlmSuccessRm_SendFirst(j) ==
  /\ impl = "llm" /\ j \in active /\ job[j].pc = "successRm"
  /\ \E ok \in BOOLEAN :
       IF ok
         THEN /\ fs' = [fs EXCEPT ![TempDir(job[j])] = RmOk(@)]
              /\ job' = [job EXCEPT ![j] =
                     Send([@ EXCEPT !.lastRm = "ok"], SuccessResponse(@))]
         ELSE /\ fs' = fs
              /\ job' = [job EXCEPT ![j] =
                     CompileCatch([Send(@, SuccessResponse(@))
                                     EXCEPT !.lastRm = "failed"], RmError)]
  /\ UNCHANGED <<pureVars, impl, active, used>>

(* success path: await fs.rm(tempDir, ...) inside the inner try, then the  *)
(* headers and res.send(pdfBuffer); a throwing rm lands in catch           *)
(* (compileError)                                                          *)
LlmSuccessRm(j) ==
  /\ impl = "llm" /\ j \in active /\ job[j].pc = "successRm"
  /\ \E ok \in BOOLEAN :
       IF ok
         THEN /\ fs' = [fs EXCEPT ![TempDir(job[j])] = RmOk(@)]
              /\ job' = [job EXCEPT ![j] =
                     Send([@ EXCEPT !.lastRm = "ok"], SuccessResponse(@))]
         ELSE /\ fs' = fs
              /\ job' = [job EXCEPT ![j] =
                     CompileCatch([@ EXCEPT !.lastRm = "failed"], RmError)]
  /\ UNCHANGED <<pureVars, impl, active, used>>

(* fixLatexErrors returned: currentLatex and llmSuggestions are set, the   *)
(* loop goes on with attempt++ and calls compileLatex                      *)
FixReturns(r) ==
  CompileBegins([r EXCEPT !.fixCalls = @ + 1, !.lastCall = "fix",
                          !.currentLatex = r.fixCalls + 1,
                          !.llmSuggestions = "attempted",
                          !.attempt = @ + 1,
                          !.pc = "writeFile"])

(* mutant: no break, the loop goes on with the unchanged source *)
FixCatch_NoBreak(r) ==
  CompileBegins([r EXCEPT !.fixCalls = @ + 1, !.lastCall = "fix", !.fixThrew = TRUE,
                          !.llmSuggestions = "unavailable",
                          !.attempt = @ + 1,
                          !.pc = "writeFile"])

(* mutant: the catch leaves llmSuggestions null *)
FixCatch_NoSuggestion(r) ==
  [r EXCEPT !.fixCalls = @ + 1, !.lastCall = "fix", !.fixThrew = TRUE,
            !.pc = "finalRm"]

(* catch (llmError): the suggestion is set and the loop is left *)
FixCatch(r) ==
  [r EXCEPT !.fixCalls = @ + 1, !.lastCall = "fix", !.fixThrew = TRUE,
            !.llmSuggestions = "unavailable",
            !.pc = "finalRm"]

(* currentLatex = await fixLatexErrors(currentLatex, lastError) *)
LlmFix(j) ==
  /\ impl = "llm" /\ j \in active /\ job[j].pc = "fix"
  /\ \E ok \in BOOLEAN :
       job' = [job EXCEPT ![j] = IF ok THEN FixReturns(@) ELSE FixCatch(@)]
  /\ UNCHANGED <<pureVars, impl, active, fs, used>>

(* after the loop: await fs.rm(...).catch(() => {}); errorResponse;        *)
(* res.status(500).json(errorResponse)                                     *)
LlmFinalRm(j) ==
  /\ impl = "llm" /\ j \in active /\ job[j].pc = "finalRm"
  /\ \E ok \in BOOLEAN :
       /\ fs' = [fs EXCEPT ![TempDir(job[j])] = IF ok THEN RmOk(@) ELSE @]
       /\ job' = [job EXCEPT ![j] =
              Send([@ EXCEPT !.lastRm = IF ok THEN "ok" ELSE "failed"],
                   errorResponse(@))]
  /\ UNCHANGED <<pureVars, impl, active, used>>

(* outer catch: await fs.rm(...).catch(() => {}); res.status(500).json(    *)
(* {error: "Internal server error", details, jobId})                      *)
LlmOuterRm(j) ==
  /\ impl = "llm" /\ j \in active /\ job[j].pc = "outerRm"
  /\ \E ok \in BOOLEAN :
       /\ fs' = [fs EXCEPT ![TempDir(job[j])] = IF ok THEN RmOk(@) ELSE @]
       /\ job' = [job EXCEPT ![j] =
              Send([@ EXCEPT !.lastRm = IF ok THEN "ok" ELSE "failed"],
                   InternalResponse(@))]
  /\ UNCHANGED <<pureVars, impl, active, used>>

----------------------------------------------------------------------------
(* POST /compile of server.js: one compile, every throw goes to the one catch *)

PdfMissingError(d) == [kind |-> "pdfmissing", run |-> IF d.exists THEN d.log ELSE 0]

(* res.set({"Content-Type", "Content-Disposition", "X-Job-Id"}); res.send(pdfBuffer) *)
BasicSuccessResponse(r) ==
  [NoResponse EXCEPT !.status = 200, !.kind = "pdf", !.jobId = r.jobId,
                     !.body = r.pdfBuffer]

(* catch: res.status(500).json({error, details, suggestion, jobId}) *)
BasicErrorResponse(r) ==
  [NoResponse EXCEPT !.status = 500, !.kind = "failed", !.jobId = r.jobId,
                     !.error = r.lastError]

(* throw inside the handler's try: control goes to the catch, which calls fs.rm *)
BasicThrow(r, msg) ==
  [r EXCEPT !.lastError = msg, !.pc = "outerRm",
            !.compileResult = IF @ = "pending" THEN "threw" ELSE @,
            !.firstCompile = IF r.compileResult = "pending" THEN "failed" ELSE @]

(* jobId = uuidv4(); validation; the call of fs.mkdir *)
BasicReceive(j) ==
  /\ impl = "basic" /\ j \in active /\ job[j].pc = "idle"
  /\ \E id \in Ids \ used, latex \in LatexFields :
       /\ used' = used \cup {id}
       /\ LET r == [job[j] EXCEPT !.jobId = id, !.latex = latex]
          IN job' = [job EXCEPT ![j] =
                 IF Falsy(latex)
                   THEN Send(r, ValidationResponse)
                   ELSE [r EXCEPT !.pc = "mkdir", !.mkdirCalled = TRUE]]
  /\ UNCHANGED <<pureVars, impl, active, fs>>

(* await fs.mkdir(tempDir, {recursive: true}) *)
BasicMkdir(j) ==
  /\ impl = "basic" /\ j \in active /\ job[j].pc = "mkdir"
  /\ \E ok \in BOOLEAN :
       IF ok
         THEN /\ fs' = [fs EXCEPT ![TempDir(job[j])] = MkdirOk(@)]
              /\ job' = [job EXCEPT ![j] =
                     [@ EXCEPT !.currentLatex = 0, !.pc = "writeFile"]]
         ELSE /\ fs' = fs
              /\ job' = [job EXCEPT ![j] = BasicThrow(@, FsError)]
  /\ UNCHANGED <<pureVars, impl, active, used>>

(* await fs.writeFile(texFile, latex) *)
BasicWriteFile(j) ==
  /\ impl = "basic" /\ j \in active /\ job[j].pc = "writeFile"
  /\ \E ok \in BOOLEAN :
       IF ok /\ Dir(j).exists
         THEN /\ fs' = [fs EXCEPT ![TempDir(job[j])] = WriteTex(@, job[j].currentLatex)]
              /\ job' = [job EXCEPT ![j] = CompileBegins([@ EXCEPT !.pc = "exec"])]
         ELSE /\ fs' = fs
              /\ job' = [job EXCEPT ![j] = BasicThrow(@, FsError)]
  /\ UNCHANGED <<pureVars, impl, active, used>>

(* await execAsync("cd tempDir && pdflatex ...", {timeout: 30000}); a      *)
(* rejection enters catch (compileError), which reads document.log         *)
BasicExec(j) ==
  /\ impl = "basic" /\ j \in active /\ job[j].pc = "exec"
  /\ \E exit \in ExitKinds, writesPdf \in BOOLEAN, writesLog \in BOOLEAN :
       /\ fs' = [fs EXCEPT ![TempDir(job[j])] =
                   IF @.exists
                     THEN RunCompiler(@, job[j].compilerRuns + 1, writesPdf, writesLog)
                     ELSE @]
       /\ job' = [job EXCEPT ![j] =
              [CompilerRan(@, fs'[TempDir(job[j])], exit)
                 EXCEPT !.pc = IF ExecRejects(exit) THEN "readLog" ELSE "access"]]
  /\ UNCHANGED <<pureVars, impl, active, used>>

(* catch (compileError): logContent = await fs.readFile(logFile) with the  *)
(* classification inline, then throw new Error(userFriendlyError + Details) *)
BasicReadLog(j) ==
  /\ impl = "basic" /\ j \in active /\ job[j].pc = "readLog"
  /\ \E readable \in BOOLEAN :
       job' = [job EXCEPT ![j] =
          BasicThrow(@, IF readable THEN extractLatexError(Dir(j))
                                 ELSE extractLatexError(NoDir))]
  /\ UNCHANGED <<pureVars, impl, active, fs, used>>

(* pdfExists = await fs.access(pdfFile).then(() => true).catch(() => false) *)
BasicAccess(j) ==
  /\ impl = "basic" /\ j \in active /\ job[j].pc = "access"
  /\ LET pdfExists == Dir(j).exists /\ Dir(j).pdf # 0
     IN job' = [job EXCEPT ![j] =
            [@ EXCEPT !.pc = IF pdfExists THEN "readPdf" ELSE "readLogNoPdf"]]
  /\ UNCHANGED <<pureVars, impl, active, fs, used>>

(* if (!pdfExists): log = await fs.readFile(logFile).catch(() => "");      *)
(* throw new Error("PDF generation failed. ..." + log.substring(0, 500))   *)
BasicReadLogNoPdf(j) ==
  /\ impl = "basic" /\ j \in active /\ job[j].pc = "readLogNoPdf"
  /\ \E readable \in BOOLEAN :
       job' = [job EXCEPT ![j] =
          BasicThrow(@, IF readable THEN PdfMissingError(Dir(j))
                                 ELSE PdfMissingError(NoDir))]
  /\ UNCHANGED <<pureVars, impl, active, fs, used>>

(* pdfBuffer = await fs.readFile(pdfFile), then the call of fs.rm *)
BasicReadPdf(j) ==
  /\ impl = "basic" /\ j \in active /\ job[j].pc = "readPdf"
  /\ \E ok \in BOOLEAN :
       job' = [job EXCEPT ![j] =
          IF ok /\ Dir(j).exists /\ Dir(j).pdf # 0
            THEN [@ EXCEPT !.pdfBuffer = Dir(j).pdf, !.pc = "successRm",
                           !.pdfRead = "ok", !.compileResult = "returned",
                           !.firstCompile = "ok"]
            ELSE BasicThrow([@ EXCEPT !.pdfRead = "failed"], FsError)]
  /\ UNCHANGED <<pureVars, impl, active, fs, used>>

(* await fs.rm(tempDir, {recursive: true, force: true}); res.set; res.send *)
BasicSuccessRm(j) ==
  /\ impl = "basic" /\ j \in active /\ job[j].pc = "successRm"
  /\ \E ok \in BOOLEAN :
       IF ok
         THEN /\ fs' = [fs EXCEPT ![TempDir(job[j])] = RmOk(@)]
              /\ job' = [job EXCEPT ![j] =
                     Send([@ EXCEPT !.lastRm = "ok"], BasicSuccessResponse(@))]
         ELSE /\ fs' = fs
              /\ job' = [job EXCEPT ![j] =
                     BasicThrow([@ EXCEPT !.lastRm = "failed"], RmError)]
  /\ UNCHANGED <<pureVars, impl, active, used>>

(* catch (error): await fs.rm(...).catch(() => {}); res.status(500).json   *)
BasicOuterRm(j) ==
  /\ impl = "basic" /\ j \in active /\ job[j].pc = "outerRm"
  /\ \E ok \in BOOLEAN :
       /\ fs' = [fs EXCEPT ![TempDir(job[j])] = IF ok THEN RmOk(@) ELSE @]
       /\ job' = [job EXCEPT ![j] =
              Send([@ EXCEPT !.lastRm = IF ok THEN "ok" ELSE "failed"],
                   BasicErrorResponse(@))]
  /\ UNCHANGED <<pureVars, impl, active, used>>

----------------------------------------------------------------------------
Next ==
  \E j \in Jobs :
    \/ LlmReceive(j)
    \/ LlmMkdir(j)
    \/ LlmWriteFile(j)
    \/ LlmExec(j)
    \/ LlmAccess(j)
    \/ LlmReadPdf(j)
    \/ LlmExtract(j)
    \/ LlmSuccessRm(j)
    \/ LlmFix(j)
    \/ LlmFinalRm(j)
    \/ LlmOuterRm(j)
    \/ BasicReceive(j)
    \/ BasicMkdir(j)
    \/ BasicWriteFile(j)
    \/ BasicExec(j)
    \/ BasicReadLog(j)
    \/ BasicAccess(j)
    \/ BasicReadLogNoPdf(j)
    \/ BasicReadPdf(j)
    \/ BasicSuccessRm(j)
    \/ BasicOuterRm(j)

Spec == Init /\ [][Next]_vars

----------------------------------------------------------------------------
(* Two requests served concurrently by the LLM-fixing server or by         *)
(* server.js: their steps interleave at every await.  The second request   *)
(* disables autoFix.                                                       *)

InitConc ==
  /\ impl \in {"basic", "llm"}
  /\ active = {1, 2}
  /\ job = [j \in Jobs |-> IdleJob]
  /\ fs = [i \in Ids |-> NoDir]
  /\ used = {}
  /\ logFile = NoLogFile
  /\ execMessage = "other"
  /\ extracted = NotExtracted
  /\ responseText = <<>>
  /\ fixedLatex = NotFixed

(* the request of the LLM-fixing server; request 2 carries autoFix: false *)
LlmReceiveConc(j) == LlmReceive(j) /\ (j = 2 => ~job'[j].autoFix)

NextConc ==
  \E j \in Jobs :
    \/ LlmReceiveConc(j)
    \/ LlmMkdir(j)
    \/ LlmWriteFile(j)
    \/ LlmExec(j)
    \/ LlmAccess(j)
    \/ LlmReadPdf(j)
    \/ LlmExtract(j)
    \/ LlmSuccessRm(j)
    \/ LlmFix(j)
    \/ LlmFinalRm(j)
    \/ LlmOuterRm(j)
    \/ BasicReceive(j)
    \/ BasicMkdir(j)
    \/ BasicWriteFile(j)
    \/ BasicExec(j)
    \/ BasicReadLog(j)
    \/ BasicAccess(j)
    \/ BasicReadLogNoPdf(j)
    \/ BasicReadPdf(j)
    \/ BasicSuccessRm(j)
    \/ BasicOuterRm(j)

SpecConc == InitConc /\ [][NextConc]_vars

----------------------------------------------------------------------------
(* A request whose awaited operations all settle: the file system calls    *)
(* return or fail, the compiler process ends (by itself or by the 30 s     *)
(* timeout), the completion service answers or fails.  The event loop then *)
(* runs the continuation of the handler, so a step of a handler that stays *)
(* possible is eventually taken.  The arrival of a request is not forced.  *)

(* the continuation of handler j after one of its awaits *)
HandlerStep(j) ==
  \/ LlmMkdir(j)
  \/ LlmWriteFile(j)
  \/ LlmExec(j)
  \/ LlmAccess(j)
  \/ LlmReadPdf(j)
  \/ LlmExtract(j)
  \/ LlmSuccessRm(j)
  \/ LlmFix(j)
  \/ LlmFinalRm(j)
  \/ LlmOuterRm(j)
  \/ BasicMkdir(j)
  \/ BasicWriteFile(j)
  \/ BasicExec(j)
  \/ BasicReadLog(j)
  \/ BasicAccess(j)
  \/ BasicReadLogNoPdf(j)
  \/ BasicReadPdf(j)
  \/ BasicSuccessRm(j)
  \/ BasicOuterRm(j)

SpecLive ==
  /\ Init
  /\ [][Next]_vars
  /\ \A j \in Jobs : WF_vars(HandlerStep(j))

----------------------------------------------------------------------------
(* The log interpreter on its own: one call on a log drawn from LogFiles   *)

InitLog ==
  /\ impl \in {"basic", "llm"}
  /\ active = {}
  /\ job = [j \in Jobs |-> IdleJob]
  /\ fs = [i \in Ids |-> NoDir]
  /\ used = {}
  /\ logFile \in LogFiles
  /\ execMessage \in ExecMessages
  /\ extracted = NotExtracted
  /\ responseText = <<>>
  /\ fixedLatex = NotFixed

ExtractLog ==
  /\ extracted = NotExtracted
  /\ extracted' = IF impl = "llm" THEN extractLatexErrorText(logFile)
                                  ELSE extractInline(logFile, execMessage)
  /\ UNCHANGED <<impl, active, job, fs, used, logFile, execMessage,
                 responseText, fixedLatex>>

NextLog == ExtractLog

SpecLog == InitLog /\ [][NextLog]_vars

----------------------------------------------------------------------------
(* fixLatexErrors on its own: one call, the completion service answers     *)
(* with a text drawn from ResponseTexts or the request fails               *)

InitFix ==
  /\ impl = "llm"
  /\ active = {}
  /\ job = [j \in Jobs |-> IdleJob]
  /\ fs = [i \in Ids |-> NoDir]
  /\ used = {}
  /\ logFile = NoLogFile
  /\ execMessage = "other"
  /\ extracted = NotExtracted
  /\ responseText \in ResponseTexts
  /\ fixedLatex = NotFixed

(* await anthropic.messages.create(...) returns; the text is cleaned up and *)
(* returned                                                                *)
FixLatexReturns ==
  /\ fixedLatex = NotFixed
  /\ fixedLatex' = [status |-> "returned", text |-> CleanUp(responseText)]
  /\ UNCHANGED <<impl, active, job, fs, used, logFile, execMessage, extracted,
                 responseText>>

(* await anthropic.messages.create(...) throws; catch (error) rethrows *)
FixLatexThrows ==
  /\ fixedLatex = NotFixed
  /\ fixedLatex' = [status |-> "threw", text |-> <<>>]
  /\ UNCHANGED <<impl, active, job, fs, used, logFile, execMessage, extracted,
                 responseText>>

NextFix == FixLatexReturns \/ FixLatexThrows

SpecFix == InitFix /\ [][NextFix]_vars

TypeOK ==
  /\ impl \in {"basic", "llm"}
  /\ active \subseteq Jobs
  /\ used \subseteq Ids
  /\ \A j \in Jobs : job[j].attempt \in 0..MAX_ATTEMPTS

----------------------------------------------------------------------------
(* Properties *)

Responded(j) == job[j].sent > 0
Validated(j) == job[j].latex = "text"
LlmJobs == IF impl = "llm" THEN Jobs ELSE {}

(* C1 as stated: once the response of a request that passed validation has *)
(* been sent, the working directory /tmp/latex-<jobId> no longer exists.   *)
C1_DirGoneAfterResponse ==
  \A j \in Jobs : Responded(j) /\ Validated(j) => ~Dir(j).exists

(* C1 amended: once the response of a request that passed validation has   *)
(* been sent, a removal of the working directory has been attempted on     *)
(* every exit path, and the directory no longer exists unless the last     *)
(* removal itself failed (its failure is swallowed).                       *)
C1_DirRemovalAttempted ==
  \A j \in Jobs :
    Responded(j) /\ Validated(j) =>
      /\ job[j].lastRm # "none"
      /\ job[j].lastRm = "ok" => ~Dir(j).exists

C1_Witness ==
  \E j \in Jobs :
    /\ Responded(j) /\ Validated(j) /\ job[j].compilerRuns > 0
    /\ job[j].lastRm = "ok" /\ ~Dir(j).exists

(* C2: within one job there are at most MAX_ATTEMPTS compiler runs, at     *)
(* most MAX_ATTEMPTS - 1 fix-service calls, so at most 2*MAX_ATTEMPTS - 1  *)
(* external calls.                                                         *)
C2_ExternalCallsBounded ==
  \A j \in Jobs :
    /\ job[j].compilerRuns <= MAX_ATTEMPTS
    /\ job[j].fixCalls <= MAX_ATTEMPTS - 1
    /\ job[j].compilerRuns + job[j].fixCalls <= 2 * MAX_ATTEMPTS - 1

C2_Witness ==
  \E j \in Jobs :
    /\ job[j].pc = "done"
    /\ job[j].compilerRuns = MAX_ATTEMPTS /\ job[j].fixCalls = MAX_ATTEMPTS - 1

(* C3: the attempt count reported on success (header) and on final failure *)
(* (attempts field) is in 1..MAX_ATTEMPTS, and the loop's attempt counter  *)
(* never decreases, grows by at most one per step and never passes         *)
(* MAX_ATTEMPTS.                                                           *)
C3_AttemptsReportedInRange ==
  /\ [](\A j \in LlmJobs :
          /\ job[j].resp.kind \in {"pdf", "failed"} =>
               job[j].resp.attempts \in 1..MAX_ATTEMPTS
          /\ job[j].attempt <= MAX_ATTEMPTS)
  /\ [][\A j \in LlmJobs :
          job'[j].attempt \in {job[j].attempt, job[j].attempt + 1}]_vars

C3_Witness ==
  \E j \in LlmJobs :
    /\ job[j].resp.kind = "pdf" /\ job[j].resp.attempts = MAX_ATTEMPTS
    /\ job[j].attempt = MAX_ATTEMPTS

(* C4 as stated: when the first compile of a job succeeds, exactly one     *)
(* compile attempt is made and the fix service is never called.            *)
C4_CleanCompileOneAttempt ==
  \A j \in Jobs :
    job[j].firstCompile = "ok" =>
      /\ job[j].compileCalls = 1 /\ job[j].compilerRuns = 1
      /\ job[j].fixCalls = 0 /\ job[j].pc # "fix"

(* C5: with autoFix false and a failing first compile the job reports      *)
(* failure after exactly one compile attempt, without any fix-service call.*)
C5_NoAutoFixOneAttempt ==
  \A j \in LlmJobs :
    ~job[j].autoFix /\ job[j].firstCompile = "failed" /\ job[j].compilerRuns > 0 =>
      /\ job[j].compileCalls = 1 /\ job[j].compilerRuns = 1
      /\ job[j].fixCalls = 0
      /\ job[j].pc \in {"finalRm", "done"}
      /\ job[j].pc = "done" => job[j].resp.kind = "failed"

C5_Witness ==
  \E j \in LlmJobs :
    /\ ~job[j].autoFix /\ job[j].firstCompile = "failed"
    /\ job[j].compilerRuns = 1 /\ job[j].pc = "done"
    /\ job[j].resp.kind = "failed" /\ job[j].resp.status = 500

(* C6: a request without a source field, or with an empty one, is answered *)
(* with 400; no working directory is created for it and neither the        *)
(* compiler nor the fix service is called.                                 *)
C6_MissingSourceRejected ==
  \A j \in Jobs :
    job[j].pc # "idle" /\ job[j].latex \in {"absent", "empty"} =>
      /\ job[j].pc = "done" /\ job[j].resp.status = 400
      /\ ~job[j].mkdirCalled /\ ~Dir(j).exists
      /\ job[j].compileCalls = 0 /\ job[j].compilerRuns = 0
      /\ job[j].fixCalls = 0

C6_Witness ==
  \E j \in Jobs :
    /\ job[j].latex = "empty" /\ job[j].pc = "done"
    /\ job[j].resp.status = 400 /\ ~Dir(j).exists

(* C7 as stated: every failure response of /compile (validation rejection, *)
(* final compilation failure, internal error) carries the job identifier   *)
(* assigned to the request.                                                *)
C7_FailureCarriesJobId ==
  \A j \in Jobs :
    Responded(j) /\ job[j].resp.status >= 400 =>
      job[j].resp.jobId # 0 /\ job[j].resp.jobId = job[j].jobId

(* C8: once a call of the fix requester has thrown, the job makes no       *)
(* further compiler run and no further fix-service call, and its response  *)
(* is the final-failure response.                                          *)
C8_FixErrorEndsLoop ==
  /\ [](\A j \in LlmJobs :
          job[j].fixThrew =>
            /\ job[j].pc \in {"finalRm", "done"}
            /\ job[j].pc = "done" => job[j].resp.kind = "failed")
  /\ [][\A j \in LlmJobs :
          job[j].fixThrew =>
            /\ job'[j].compilerRuns = job[j].compilerRuns
            /\ job'[j].compileCalls = job[j].compileCalls
            /\ job'[j].fixCalls = job[j].fixCalls]_vars

C8_Witness ==
  \E j \in LlmJobs :
    /\ job[j].fixThrew /\ job[j].pc = "done"
    /\ job[j].resp.kind = "failed" /\ job[j].resp.llmSuggestions = "unavailable"

(* C9 as stated: a compile whose compiler run has ended reports success    *)
(* exactly when document.pdf exists after the run, whatever the exit.      *)
C9_SuccessIffPdfExists ==
  \A j \in Jobs :
    job[j].exit # "none" /\ job[j].compileResult \in {"returned", "threw"} =>
      (job[j].compileResult = "returned" <=> job[j].pdfAfterRun)

(* C9 amended: a compile whose compiler run has ended returns the artifact *)
(* exactly when the compiler exited with status zero within the timeout,   *)
(* document.pdf exists after the run and reading it succeeded; a non-zero  *)
(* exit or a timeout is a failure even when document.pdf exists.           *)
C9_SuccessIffExitZeroAndPdf ==
  \A j \in Jobs :
    job[j].exit # "none" /\ job[j].compileResult \in {"returned", "threw"} =>
      (job[j].compileResult = "returned" <=>
         job[j].exit = "zero" /\ job[j].pdfAfterRun /\ job[j].pdfRead = "ok")

C9_Witness ==
  \E j \in Jobs :
    /\ job[j].exit \in {"nonzero", "timeout"} /\ job[j].pdfAfterRun
    /\ job[j].compileResult = "threw"

(* C10 as stated: on success X-Compilation-Attempts equals the number of   *)
(* compiler runs of the job, and X-LLM-Fixed is "true" exactly when the    *)
(* compiled source is the output of a successful fix-service call.         *)
C10_SuccessHeaders ==
  \A j \in LlmJobs :
    job[j].resp.kind = "pdf" =>
      /\ job[j].resp.attempts = job[j].compilerRuns
      /\ job[j].resp.llmFixed = "true" <=> job[j].currentLatex > 0
      /\ job[j].resp.llmFixed = "false" <=> job[j].currentLatex = 0

(* C11: two jobs that are served concurrently have distinct identifiers    *)
(* and distinct working directories, and a step of one job changes         *)
(* (writes, compiles in, removes) only that job's own directory, in every  *)
(* interleaving.                                                           *)
Started(j) == job[j].pc # "idle"

C11_JobsIsolated ==
  /\ [](\A j, k \in Jobs :
          Started(j) /\ Started(k) /\ j # k =>
            /\ job[j].jobId # job[k].jobId
            /\ TempDir(job[j]) # TempDir(job[k]))
  /\ [][\A id \in Ids :
          fs'[id] # fs[id] =>
            \E j \in Jobs : /\ job'[j] # job[j]
                            /\ \A k \in Jobs \ {j} : job'[k] = job[k]
                            /\ job[j].jobId = id]_vars

C11_Witness ==
  /\ job[1].pc = "exec" /\ job[2].pc = "successRm"
  /\ job[1].jobId # job[2].jobId
  /\ Dir(1).exists /\ Dir(2).exists /\ Dir(1).tex = 0 /\ Dir(2).pdf = 1

(* The log interpreter has returned for a readable document.log *)
Interpreted == extracted # NotExtracted /\ logFile.readable

(* line i is the first line of the log that starts with '!' *)
FirstBang(lines, i) ==
  /\ i \in 1..Len(lines)
  /\ StartsWithBang(lines[i])
  /\ \A k \in 1..(i - 1) : ~StartsWithBang(lines[k])

(* C12 as stated: whenever some line that starts with '!' carries          *)
(* 'Undefined control sequence', the message is the canned "Undefined      *)
(* LaTeX command..." sentence, whatever lines precede or follow it.        *)
C12_UndefinedAnyErrorLine ==
  Interpreted =>
    ((\E i \in 1..Len(logFile.lines) :
         StartsWithBang(logFile.lines[i]) /\ Includes(logFile.lines[i], Undefined))
       => extracted.userFriendlyError = Message("undefined", <<>>))

(* C12 amended: whenever the first line that starts with '!' carries       *)
(* 'Undefined control sequence', the message is the canned "Undefined      *)
(* LaTeX command..." sentence, whatever lines without a leading '!'        *)
(* precede it and whatever lines (with or without '!') follow it.          *)
C12_UndefinedFirstErrorLine ==
  Interpreted =>
    \A i \in 1..Len(logFile.lines) :
      FirstBang(logFile.lines, i) /\ Includes(logFile.lines[i], Undefined)
        => extracted.userFriendlyError = Message("undefined", <<>>)

C12_Witness ==
  /\ Interpreted /\ Len(logFile.lines) = 3
  /\ logFile.lines[1] = <<Text>>
  /\ logFile.lines[2] = <<Bang, Space, Undefined>>
  /\ logFile.lines[3] = <<Bang, Space, Emergency>>
  /\ extracted.userFriendlyError = Message("undefined", <<>>)

(* rest is text surrounded by white space only, and text has none at its ends *)
IsTrimOf(text, rest) ==
  /\ \E lo \in 1..(Len(rest) + 1), hi \in 0..Len(rest) :
       /\ text = SubSeq(rest, lo, hi)
       /\ \A k \in 1..Len(rest) : k < lo \/ k > hi => rest[k] = Space
  /\ text # <<>> => text[1] # Space /\ text[Len(text)] # Space

(* C20: only the first line that starts with '!' is classified, lines      *)
(* after it do not matter; the markers are tested in the order Undefined   *)
(* control sequence, File + not found, Missing, Emergency stop, so that    *)
(* the earliest marker present decides; without any marker the message is  *)
(* that line without its leading '!', trimmed.                             *)
C20_FirstErrorLinePriority ==
  Interpreted =>
    \A i \in 1..Len(logFile.lines) :
      FirstBang(logFile.lines, i) =>
        LET line == logFile.lines[i]
            msg == extracted.userFriendlyError
            undef == Includes(line, Undefined)
            file == Includes(line, FileWord) /\ Includes(line, NotFound)
            missing == Includes(line, Missing)
            stop == Includes(line, Emergency)
        IN /\ undef => msg.kind = "undefined"
           /\ ~undef /\ file => msg.kind = "file"
           /\ ~undef /\ ~file /\ missing => msg.kind = "missing"
           /\ ~undef /\ ~file /\ ~missing /\ stop => msg.kind = "emergency"
           /\ ~undef /\ ~file /\ ~missing /\ ~stop =>
                msg.kind = "raw" /\ IsTrimOf(msg.text, Tail(line))

C20_Witness ==
  /\ Interpreted /\ Len(logFile.lines) = 3
  /\ logFile.lines[1] = <<Space, Bang, Undefined>>
  /\ logFile.lines[2] = <<Bang, Space, Text, Space>>
  /\ logFile.lines[3] = <<Bang, Undefined, Missing>>
  /\ extracted.userFriendlyError = Message("raw", <<Text>>)

(* C13: a final-failure response carries llmSuggestions exactly when the   *)
(* fix requester was called at least once during the job.                  *)
C13_SuggestionIffFixCalled ==
  \A j \in LlmJobs :
    job[j].resp.kind = "failed" =>
      (job[j].resp.llmSuggestions # "absent" <=> job[j].fixCalls >= 1)

C13_Witness ==
  \E j \in LlmJobs :
    /\ job[j].resp.kind = "failed" /\ job[j].fixCalls = 1 /\ job[j].fixThrew
    /\ job[j].resp.llmSuggestions = "unavailable"

(* the step of job j in which fixLatexErrors returns replacement source *)
FixReturned(j) ==
  /\ job[j].pc = "fix"
  /\ job'[j].fixCalls = job[j].fixCalls + 1
  /\ ~job'[j].fixThrew

(* C14 as stated: the job goes from attempt n to attempt n+1 exactly when   *)
(* the compile of attempt n failed, autoFix is on, n < MAX_ATTEMPTS and    *)
(* the fix requester returned replacement source; attempt n+1 compiles     *)
(* that replacement, attempt 1 the request's source.                       *)
C14_AdvanceIffFixed ==
  [][\A j \in LlmJobs :
       /\ (job[j].attempt >= 1 /\ job'[j].attempt = job[j].attempt + 1)
            <=> /\ job[j].compileResult = "threw"
                /\ job[j].autoFix
                /\ job[j].attempt \in 1..(MAX_ATTEMPTS - 1)
                /\ FixReturned(j)
       /\ (job[j].attempt >= 1 /\ job'[j].attempt = job[j].attempt + 1)
            => job'[j].currentLatex = job'[j].fixCalls
       /\ (job[j].attempt = 0 /\ job'[j].attempt = 1)
            => job'[j].currentLatex = 0
       /\ (job[j].pc = "writeFile" /\ job'[j].pc = "exec")
            => fs'[TempDir(job[j])].tex = job[j].currentLatex]_vars

(* C15 as stated: a failing removal of the working directory never changes *)
(* the outcome: a job whose compile succeeded still answers with the       *)
(* artifact and makes no further compiler run or fix-service call.         *)
C15_RmFailureSwallowed ==
  \A j \in Jobs :
    job[j].compileResult = "returned" /\ job[j].lastRm = "failed" =>
      /\ job[j].pc = "done"
      /\ job[j].resp.kind = "pdf" /\ job[j].resp.status = 200

(* C16 as stated: a file-system failure while creating the directory or    *)
(* writing the source is answered by the outer catch with "Internal server *)
(* error"; it is not treated as a compilation failure and leads to no fix  *)
(* call and no retry.                                                      *)
C16_FsFailureInternalError ==
  \A j \in LlmJobs :
    job[j].lastError = FsError =>
      /\ job[j].pc \in {"outerRm", "done"}
      /\ job[j].pc = "done" => job[j].resp.kind = "internal"

(* C17 as stated: once the compile of attempt n reports success there is   *)
(* no later compiler run or fix call, the directory is removed and the     *)
(* response carries the artifact of attempt n.                             *)
C17_SuccessStopsLoop ==
  \A j \in LlmJobs :
    job[j].compileResult = "returned" =>
      /\ job[j].pc \in {"successRm", "done"}
      /\ job[j].pc = "done" =>
           /\ job[j].resp.kind = "pdf" /\ ~Dir(j).exists
           /\ job[j].resp.attempts = job[j].attempt
           /\ job[j].resp.body = job[j].compilerRuns

(* C18 as stated: a job ends in final failure exactly when its last        *)
(* compile failed and, at that attempt n, autoFix was off, or n was        *)
(* MAX_ATTEMPTS, or the fix requester failed; in the first two cases the   *)
(* fix requester is not called at attempt n.                               *)
C18_FinalFailureIff ==
  \A j \in LlmJobs :
    job[j].pc = "done" /\ job[j].resp.kind \in {"pdf", "failed"} =>
      /\ job[j].resp.kind = "failed" <=>
           /\ job[j].compileResult = "threw"
           /\ ~job[j].autoFix \/ job[j].attempt = MAX_ATTEMPTS \/ job[j].fixThrew
      /\ job[j].resp.kind = "failed" /\ ~job[j].fixThrew =>
           job[j].fixCalls = job[j].attempt - 1

(* C19 as stated: the external calls of a job alternate compile, fix,      *)
(* compile, ...: a fix call starts only after the preceding compile has    *)
(* completed with failure, a compile of attempt n+1 only after the fix of  *)
(* attempt n has completed, and no two calls are in flight together.       *)
C19_CallsAlternate ==
  [][\A j \in LlmJobs :
       /\ (job[j].pc # "fix" /\ job'[j].pc = "fix") =>
            /\ job'[j].lastCall = "compile"
            /\ job'[j].exit # "none" /\ job'[j].compileResult = "threw"
       /\ (job[j].pc # "exec" /\ job'[j].pc = "exec") =>
            \/ job[j].lastCall = "none" /\ job[j].attempt = 1
            \/ job[j].lastCall = "fix" /\ job[j].attempt = job[j].fixCalls + 1
       /\ ~(job'[j].pc = "fix" /\ job'[j].pc = "exec")]_vars

(* no line of the log starts with '!' *)
NoBang(lines) == \A i \in 1..Len(lines) : ~StartsWithBang(lines[i])

(* excerpt is made of the last n of the lines whose index is in K (all of  *)
(* them when K has fewer), in the order they have in lines                 *)
IsLastOf(excerpt, lines, K, n) ==
  LET m == Min2(n, Cardinality(K))
  IN /\ Len(excerpt) = m
     /\ \A k \in K :
          LET after == Cardinality({h \in K : h > k})
          IN after < m => excerpt[m - after] = lines[k]

(* C21 as stated: when no line of the log starts with '!', the interpreter *)
(* returns the generic "Compilation failed. Check LaTeX syntax." message   *)
(* and an excerpt made of the last 10 non-empty lines of the log in their  *)
(* original order (all of them when there are fewer).                      *)
C21_LastNonEmptyLines ==
  Interpreted /\ NoBang(logFile.lines) =>
    /\ extracted.userFriendlyError = Message("generic", <<>>)
    /\ IsLastOf(extracted.errorDetails, logFile.lines,
                {k \in 1..Len(logFile.lines) : logFile.lines[k] # <<>>},
                MaxExcerptLines)

(* a line that is empty or made of white space only *)
Blank(line) == \A p \in 1..Len(line) : line[p] = Space

(* a line that contains the text *File List* *)
HasFileList(line) == \E p \in 1..Len(line) : line[p] = FileList

(* C21 amended: when no line of the log starts with '!' (and, in           *)
(* server.js, the exec error does not say 'pdflatex: command not found'),  *)
(* the interpreter returns the generic "Compilation failed. Check LaTeX    *)
(* syntax." message and an excerpt made of the last 10 lines, in their     *)
(* original order, among the lines that are not blank (empty or white      *)
(* space only) and do not contain '*File List*' (all of them when there    *)
(* are fewer); in server.js with 'pdflatex: command not found' the message *)
(* is "LaTeX is not properly installed on the server." instead.            *)
C21_LastMeaningfulLines ==
  Interpreted /\ NoBang(logFile.lines) =>
    IF impl = "basic" /\ execMessage = "command not found"
      THEN extracted.userFriendlyError = Message("notinstalled", <<>>)
      ELSE /\ extracted.userFriendlyError = Message("generic", <<>>)
           /\ IsLastOf(extracted.errorDetails, logFile.lines,
                       {k \in 1..Len(logFile.lines) :
                          ~Blank(logFile.lines[k]) /\ ~HasFileList(logFile.lines[k])},
                       MaxExcerptLines)

C21_Witness ==
  /\ Interpreted /\ NoBang(logFile.lines) /\ Len(logFile.lines) = 12
  /\ logFile.lines[5] = <<FileList>> /\ logFile.lines[2] = <<"l02">>
  /\ extracted.userFriendlyError = Message("generic", <<>>)
  /\ Len(extracted.errorDetails) = MaxExcerptLines
  /\ extracted.errorDetails[1] = <<"l02">>
  /\ extracted.errorDetails[4] = <<"l06">>
  /\ extracted.errorDetails[10] = <<"l12">>

(* three consecutive backticks somewhere in t *)
HasFence(t) == \E i \in 1..Len(t) : StartsWithFence(SubSeq(t, i, Len(t)))

(* C22 as stated: for every response text, the source fixLatexErrors       *)
(* returns has no leading or trailing white space, contains no ``` marker, *)
(* and the same clean-up applied to it again leaves it unchanged.          *)
C22_CleanUpTrimmedFenceFreeIdempotent ==
  fixedLatex.status = "returned" =>
    LET t == fixedLatex.text
    IN /\ t # <<>> => ~IsWhiteSpace(t[1]) /\ ~IsWhiteSpace(t[Len(t)])
       /\ ~HasFence(t)
       /\ CleanUp(t) = t

(* C23 as stated: in a final-failure response the attempts field equals    *)
(* the number of compiler runs the job performed: 1 when autoFix is off or *)
(* the first fix call fails, 2 when the second fix call fails, 3 at the    *)
(* ceiling.                                                                *)
C23_AttemptsIsCompilerRuns ==
  \A j \in LlmJobs :
    job[j].resp.kind = "failed" =>
      /\ job[j].resp.attempts = job[j].compilerRuns
      /\ ~job[j].autoFix => job[j].resp.attempts = 1
      /\ job[j].fixThrew => job[j].resp.attempts = job[j].fixCalls

(* the error of job j is in the hands of the fix requester or in its       *)
(* final-failure response                                                  *)
ErrorHandedOn(j) == job[j].pc = "fix" \/ job[j].resp.kind = "failed"

(* C24 as stated: the error message handed to the fix requester after      *)
(* attempt n, and the error of the final-failure response, come from the   *)
(* interpretation of document.log after the compiler run of that attempt;  *)
(* when a log was read it is the one that run wrote, never one left in the *)
(* directory by an earlier attempt.                                        *)
C24_ErrorFromSameAttemptLog ==
  \A j \in LlmJobs :
    ErrorHandedOn(j) =>
      /\ job[j].lastError.kind \in {"log", "nolog"}
      /\ job[j].exit # "none"
      /\ job[j].lastError.kind = "log" => job[j].lastError.run = job[j].compilerRuns

(* C25: when every awaited operation settles, every request that has been  *)
(* received eventually sends a response; a request never sends more than   *)
(* one response, the handler is finished exactly when it has sent one, and *)
(* nothing is sent or changed in the response afterwards.                  *)
C25_RespondsExactlyOnce ==
  /\ \A j \in Jobs : Started(j) ~> Responded(j)
  /\ [](\A j \in Jobs :
          /\ job[j].sent <= 1
          /\ job[j].pc = "done" <=> job[j].sent = 1)
  /\ [][\A j \in Jobs :
          job[j].sent = 1 => job'[j].sent = 1 /\ job'[j].resp = job[j].resp]_vars

C25_Witness ==
  \E j \in Jobs :
    /\ job[j].pc = "done" /\ job[j].sent = 1 /\ job[j].resp.kind = "failed"
    /\ job[j].compilerRuns = MAX_ATTEMPTS /\ job[j].fixCalls = MAX_ATTEMPTS - 1
    /\ job[j].lastRm = "failed" /\ Dir(j).exists

====
